---- MODULE Spec2Model ----
(***************************************************************************)
(* Model of chat_app.py: one chat turn of the Gemini / Notion / Google     *)
(* Calendar assistant.  A turn appends the user's prompt to the session    *)
(* transcript, picks a branch by keyword tests, calls the completion       *)
(* model, parses its answer as JSON, issues at most one write to Notion or *)
(* Google Calendar and appends the assistant's answer.                     *)
(*                                                                         *)
(* Text is a sequence of strings.  User input and the JSON field values    *)
(* are sequences of characters, so that lower(), in, split('T') and      *)
(* strptime are computed on the characters; the fixed pieces of an         *)
(* f-string and the pieces of a completion (a fence marker, a JSON         *)
(* document, a sentence of prose) are single elements.  A character       *)
(* outside ASCII is written as its escape \uXXXX, the original text is in   *)
(* the comment next to it.                                                 *)
(***************************************************************************)
EXTENDS Integers, Sequences, FiniteSets, TLC

\* Number of prompts the user submits in one session.
MaxTurns == 1

----------------------------------------------------------------------------
(* Python str operations *)

UpperChars == <<"A","B","C","D","E","F","G","H","I","J","K","L","M",
                "N","O","P","Q","R","S","T","U","V","W","X","Y","Z">>
LowerChars == <<"a","b","c","d","e","f","g","h","i","j","k","l","m",
                "n","o","p","q","r","s","t","u","v","w","x","y","z">>

LowerChar(c) ==
    IF \E i \in 1..Len(UpperChars) : UpperChars[i] = c
    THEN LowerChars[CHOOSE i \in 1..Len(UpperChars) : UpperChars[i] = c]
    ELSE c

\* str.lower()
lower(s) == [i \in 1..Len(s) |-> LowerChar(s[i])]

\* sub in s
Contains(sub, s) ==
    \E i \in 1..(Len(s) - Len(sub) + 1) : SubSeq(s, i, i + Len(sub) - 1) = sub

\* s.split(c)
RECURSIVE Split(_, _)
Split(s, c) ==
    IF \E i \in 1..Len(s) : s[i] = c
    THEN LET i == CHOOSE k \in 1..Len(s) : s[k] = c /\ \A j \in 1..(k-1) : s[j] # c
         IN  <<SubSeq(s, 1, i - 1)>> \o Split(SubSeq(s, i + 1, Len(s)), c)
    ELSE <<s>>

Digits == <<"0","1","2","3","4","5","6","7","8","9">>
IsDigit(c) == \E i \in 1..10 : Digits[i] = c
DigitVal(c) == (CHOOSE i \in 1..10 : Digits[i] = c) - 1
AllDigits(s) == \A i \in 1..Len(s) : IsDigit(s[i])

RECURSIVE Num(_)
Num(s) == IF s = <<>> THEN 0 ELSE 10 * Num(SubSeq(s, 1, Len(s) - 1)) + DigitVal(s[Len(s)])

IsLeap(y) == (y % 4 = 0 /\ y % 100 # 0) \/ y % 400 = 0
DaysIn(y, m) ==
    IF m = 2 THEN (IF IsLeap(y) THEN 29 ELSE 28)
    ELSE IF m \in {4, 6, 9, 11} THEN 30 ELSE 31

\* datetime.datetime.strptime(s, '%Y-%m-%d') does not raise ValueError
strptime_ok(s) ==
    LET p == Split(s, "-") IN
    /\ Len(p) = 3
    /\ Len(p[1]) = 4 /\ AllDigits(p[1]) /\ Num(p[1]) >= 1
    /\ Len(p[2]) \in {1, 2} /\ AllDigits(p[2]) /\ Num(p[2]) \in 1..12
    /\ LET d == IF Len(p[3]) = 2 /\ p[3][1] = " " THEN SubSeq(p[3], 2, 2) ELSE p[3]
       IN  /\ Len(d) \in {1, 2} /\ AllDigits(d)
           /\ Num(d) \in 1..DaysIn(Num(p[1]), Num(p[2]))

----------------------------------------------------------------------------
(* JSON values as json.loads returns them; JSON null is Python None *)

None == [t |-> "null", s |-> <<>>, f |-> <<>>]
JStr(s) == [t |-> "string", s |-> s, f |-> <<>>]
JArr(s) == [t |-> "array", s |-> s, f |-> <<>>]
JObj(f) == [t |-> "object", s |-> <<>>, f |-> f]

\* bool(v)
Truthy(v) ==
    CASE v.t = "null" -> FALSE
      [] v.t = "string" -> v.s # <<>>
      [] v.t = "array" -> v.s # <<>>
      [] v.t = "object" -> DOMAIN v.f # {}

\* d.get(k) of a dict
get(d, k) == IF k \in DOMAIN d.f THEN d.f[k] ELSE None

\* str(v) as an f-string renders it
Str(v) == IF v = None THEN <<"None">> ELSE v.s

Milk == <<"b", "u", "y", " ", "m", "i", "l", "k">>
Kaigi == <<"\\u4f1a", "\\u8b70">>
ReportEn == <<"R", "e", "p", "o", "r", "t", " ", "s", "u", "b", "m", "i", "s", "s", "i", "o", "n", " ", "d", "e", "a", "d", "l", "i", "n", "e">>
ReportJa == <<"\\u30ec", "\\u30dd", "\\u30fc", "\\u30c8", "\\u63d0", "\\u51fa", "\\u671f", "\\u9650">>
Jun02 == <<"2", "0", "2", "5", "-", "0", "6", "-", "0", "2">>
Mar10 == <<"2", "0", "2", "5", "-", "0", "3", "-", "1", "0">>
Mar10T09 == <<"2", "0", "2", "5", "-", "0", "3", "-", "1", "0", "T", "0", "9", ":", "0", "0", ":", "0", "0">>
Mar10T10 == <<"2", "0", "2", "5", "-", "0", "3", "-", "1", "0", "T", "1", "0", ":", "0", "0", ":", "0", "0">>

\* json.loads of each JSON document the completion model is taken to write
json_documents ==
    ("{\"task_name\": \"buy milk\", \"due_date\": \"2025-06-02\"}" :>
        JObj([task_name |-> JStr(Milk), due_date |-> JStr(Jun02)])) @@
    ("{\"task_name\": \"buy milk\", \"due_date\": null}" :>
        JObj([task_name |-> JStr(Milk), due_date |-> None])) @@
    ("{\"task_name\": \"\"}" :>
        JObj([task_name |-> JStr(<<>>)])) @@
    ("{\"summary\": \"\\u4f1a\\u8b70\", \"start_time\": \"2025-03-10T09:00:00\", \"end_time\": \"2025-03-10T10:00:00\"}" :>
        JObj([summary |-> JStr(Kaigi), start_time |-> JStr(Mar10T09), end_time |-> JStr(Mar10T10)])) @@
    ("{\"summary\": \"\\u4f1a\\u8b70\", \"start_time\": \"2025-03-10T09:00:00\"}" :>
        JObj([summary |-> JStr(Kaigi), start_time |-> JStr(Mar10T09)])) @@
    ("{\"summary\": \"\\u4f1a\\u8b70\", \"start_time\": \"2025-03-10T09:00:00\", \"end_time\": null}" :>
        JObj([summary |-> JStr(Kaigi), start_time |-> JStr(Mar10T09), end_time |-> None])) @@
    ("{\"start_time\": \"2025-03-10T09:00:00\", \"end_time\": \"2025-03-10T10:00:00\"}" :>
        JObj([start_time |-> JStr(Mar10T09), end_time |-> JStr(Mar10T10)])) @@
    ("{\"summary\": \"\\u4f1a\\u8b70\", \"end_time\": \"2025-03-10T10:00:00\"}" :>
        JObj([summary |-> JStr(Kaigi), end_time |-> JStr(Mar10T10)])) @@
    ("{\"action\": \"event\", \"summary\": \"Report submission deadline\", \"start_time\": \"2025-03-10T09:00:00\", \"end_time\": null}" :>
        JObj([action |-> JStr(<<"e", "v", "e", "n", "t">>), summary |-> JStr(ReportEn),
              start_time |-> JStr(Mar10T09), end_time |-> None])) @@
    ("{\"action\": \"event\", \"summary\": \"\\u30ec\\u30dd\\u30fc\\u30c8\\u63d0\\u51fa\\u671f\\u9650\", \"start_time\": \"2025-03-10T09:00:00\", \"end_time\": null}" :>
        JObj([action |-> JStr(<<"e", "v", "e", "n", "t">>), summary |-> JStr(ReportJa),
              start_time |-> JStr(Mar10T09), end_time |-> None])) @@
    ("{\"action\": \"event\", \"summary\": \"\\u30ec\\u30dd\\u30fc\\u30c8\\u63d0\\u51fa\\u671f\\u9650\", \"start_time\": null}" :>
        JObj([action |-> JStr(<<"e", "v", "e", "n", "t">>), summary |-> JStr(ReportJa), start_time |-> None])) @@
    ("{\"action\": \"event\", \"summary\": \"\\u4f1a\\u8b70\", \"start_time\": \"2025-03-10T09:00:00\", \"end_time\": \"2025-03-10T10:00:00\"}" :>
        JObj([action |-> JStr(<<"e", "v", "e", "n", "t">>), summary |-> JStr(Kaigi),
              start_time |-> JStr(Mar10T09), end_time |-> JStr(Mar10T10)])) @@
    ("{\"action\": \"event\", \"summary\": \"\\u4f1a\\u8b70\", \"start_time\": null, \"end_time\": null}" :>
        JObj([action |-> JStr(<<"e", "v", "e", "n", "t">>), summary |-> JStr(Kaigi),
              start_time |-> None, end_time |-> None])) @@
    ("{\"action\": \"task\", \"summary\": \"buy milk\", \"date\": \"2025-06-02\"}" :>
        JObj([action |-> JStr(<<"t", "a", "s", "k">>), summary |-> JStr(Milk), date |-> JStr(Jun02)])) @@
    ("{\"action\": \"task\", \"summary\": \"\", \"date\": null}" :>
        JObj([action |-> JStr(<<"t", "a", "s", "k">>), summary |-> JStr(<<>>), date |-> None])) @@
    ("[1]" :> JArr(<<"1">>))

JsonTexts == DOMAIN json_documents

Whitespace == {"\n", " "}

\* the markers of a JSON code fence, "```json" and "```"; \x60 is the backtick
FenceOpen == "\\x60\\x60\\x60json"
FenceClose == "\\x60\\x60\\x60"

\* s.strip(): leading and trailing whitespace removed
RECURSIVE strip(_)
strip(s) ==
    IF s # <<>> /\ s[1] \in Whitespace THEN strip(Tail(s))
    ELSE IF s # <<>> /\ s[Len(s)] \in Whitespace THEN strip(SubSeq(s, 1, Len(s) - 1))
    ELSE s

\* s.replace(piece, ""): every occurrence removed
replace(s, piece) == SelectSeq(s, LAMBDA e : e # piece)

\* response.text.strip().replace(FenceOpen, "").replace(FenceClose, "")
json_text(text) == replace(replace(strip(text), FenceOpen), FenceClose)

\* json.loads(s) returns a value (it skips whitespace around one document)
loads_ok(s) ==
    LET d == SelectSeq(s, LAMBDA e : e \notin Whitespace)
    IN  Len(d) = 1 /\ d[1] \in JsonTexts

\* json.loads(s), where it returns
loads(s) == json_documents[SelectSeq(s, LAMBDA e : e \notin Whitespace)[1]]

Fenced(doc) == <<FenceOpen, "\n", doc, "\n", FenceClose>>

\* what generate_content does: it raises, or it returns a response with a text
Raised == [raised |-> TRUE, text |-> <<>>]
Returned(text) == [raised |-> FALSE, text |-> text]
NoCompletion == [raised |-> FALSE, text |-> <<"(not called)">>]

Completions ==
    {Raised}
    \cup {Returned(Fenced(d)) : d \in JsonTexts}
    \cup {Returned(<<"{\"task_name\": \"buy milk\", \"due_date\": \"2025-06-02\"}">>),
          Returned(<<"Sorry, I cannot help with that.">>),
          Returned(<<"Here is the JSON:", "\n">> \o Fenced("{\"task_name\": \"buy milk\", \"due_date\": null}"))}

----------------------------------------------------------------------------
(* The session *)

VARIABLES
    notion,                \* the Notion client is configured (lines 34-39)
    gcal_service,          \* the Calendar service is configured (lines 42-62)
    gemini_model,          \* the Gemini model is configured (lines 25-31)
    calendar_owner_email,  \* the CALENDAR_OWNER_EMAIL secret is set (line 128)
    messages,              \* st.session_state.messages
    pc,                    \* where the script run of the current turn stands
    prompt,                \* the text of the current turn
    branch,                \* the branch of the if/elif chain the turn took
    completion,            \* what generate_content did in this turn
    task_args,             \* <<task_name, due_date>> given to add_task_to_notion
    event_details,         \* the dict given to add_event_to_calendar
    calls,                 \* the outbound calls of this turn, in order
    response_text,         \* the answer of this turn
    fault                  \* the exception that ended the script run, or "none"

vars == <<notion, gcal_service, gemini_model, calendar_owner_email, messages, pc,
          prompt, branch, completion, task_args, event_details, calls,
          response_text, fault>>

config == <<notion, gcal_service, gemini_model, calendar_owner_email>>

\* What the user types.  カレンダー = calendar, 予定 = schedule, タスク = task
Utterances ==
    { <<"T", "A", "S", "K">>,
      <<"n", "o", "t", "i", "o", "n", " ", "\\u4e88", "\\u5b9a">>,
      <<"t", "a", "s", "k", " ", "c", "a", "l", "e", "n", "d", "a", "r">>,
      <<"\\u30bf", "\\u30b9", "\\u30af", "\\u4e88", "\\u5b9a">>,
      <<"\\u30ab", "\\u30ec", "\\u30f3", "\\u30c0", "\\u30fc">>,
      <<"E", "v", "e", "n", "t">>,
      <<"m", "a", "i", "l", " ", "\\u4e88", "\\u5b9a">>,
      <<"E", "m", "a", "i", "l">>,
      <<"h", "i">> }

\* ["〆切", "期限", "提出", "締切", "期日"]
DEADLINE_KEYWORDS == { <<"\\u3006", "\\u5207">>, <<"\\u671f", "\\u9650">>, <<"\\u63d0", "\\u51fa">>, <<"\\u7de0", "\\u5207">>, <<"\\u671f", "\\u65e5">> }

\* str(e) of the exceptions the script formats into an answer
ErrGenerate == <<"generate_content failed">>
ErrNoModel == <<"'NoneType' object has no attribute 'generate_content'">>
ErrNoGet == <<"'list' object has no attribute 'get'">>

\* created_event.get('htmlLink')
HtmlLink == <<"https://www.google.com/calendar/event?eid=1">>

Init ==
    /\ notion \in BOOLEAN
    /\ gcal_service \in BOOLEAN
    /\ gemini_model \in BOOLEAN
    /\ calendar_owner_email \in BOOLEAN
    /\ messages = <<>>
    /\ pc = "idle"
    /\ prompt = <<>>
    /\ branch = "none"
    /\ completion = NoCompletion
    /\ task_args = <<None, None>>
    /\ event_details = None
    /\ calls = <<>>
    /\ response_text = <<>>
    /\ fault = "none"

\* the number of prompts accepted so far
Turns == Len(SelectSeq(messages, LAMBDA m : m.role = "user"))

\* Route with the calendar test ahead of the task test
Route_EventFirst(u) ==
    IF gcal_service /\ (Contains(<<"\\u30ab", "\\u30ec", "\\u30f3", "\\u30c0", "\\u30fc">>, u) \/ Contains(<<"\\u4e88", "\\u5b9a">>, u))
    THEN "Event"
    ELSE IF notion /\ (Contains(<<"n", "o", "t", "i", "o", "n">>, lower(u)) \/ Contains(<<"t", "a", "s", "k">>, lower(u)))
    THEN "Task"
    ELSE IF Contains(<<"e", "m", "a", "i", "l">>, lower(u)) \/ Contains(<<"m", "a", "i", "l">>, lower(u))
    THEN "Email"
    ELSE IF gemini_model THEN "Chat"
    ELSE "Unavailable"

\* Route with the task keywords tested on the prompt as typed
Route_CaseSensitive(u) ==
    IF notion /\ (Contains(<<"n", "o", "t", "i", "o", "n">>, u) \/ Contains(<<"t", "a", "s", "k">>, u))
    THEN "Task"
    ELSE IF gcal_service /\ (Contains(<<"\\u30ab", "\\u30ec", "\\u30f3", "\\u30c0", "\\u30fc">>, u) \/ Contains(<<"\\u4e88", "\\u5b9a">>, u))
    THEN "Event"
    ELSE IF Contains(<<"e", "m", "a", "i", "l">>, lower(u)) \/ Contains(<<"m", "a", "i", "l">>, lower(u))
    THEN "Email"
    ELSE IF gemini_model THEN "Chat"
    ELSE "Unavailable"

\* Route with the calendar branch not guarded by gcal_service
Route_NoCalendarGuard(u) ==
    IF notion /\ (Contains(<<"n", "o", "t", "i", "o", "n">>, lower(u)) \/ Contains(<<"t", "a", "s", "k">>, lower(u)))
    THEN "Task"
    ELSE IF Contains(<<"\\u30ab", "\\u30ec", "\\u30f3", "\\u30c0", "\\u30fc">>, u) \/ Contains(<<"\\u4e88", "\\u5b9a">>, u)
    THEN "Event"
    ELSE IF Contains(<<"e", "m", "a", "i", "l">>, lower(u)) \/ Contains(<<"m", "a", "i", "l">>, lower(u))
    THEN "Email"
    ELSE IF gemini_model THEN "Chat"
    ELSE "Unavailable"

\* the guards of the if/elif chain, in its order
Route(u) ==
    IF notion /\ (Contains(<<"n", "o", "t", "i", "o", "n">>, lower(u)) \/ Contains(<<"t", "a", "s", "k">>, lower(u)))
    THEN "Task"
    ELSE IF gcal_service /\ (Contains(<<"\\u30ab", "\\u30ec", "\\u30f3", "\\u30c0", "\\u30fc">>, u) \/ Contains(<<"\\u4e88", "\\u5b9a">>, u))
    THEN "Event"
    ELSE IF Contains(<<"e", "m", "a", "i", "l">>, lower(u)) \/ Contains(<<"m", "a", "i", "l">>, lower(u))
    THEN "Email"
    ELSE IF gemini_model THEN "Chat"
    ELSE "Unavailable"

\* How a stretch of the script ends: with an answer, at an outbound write,
\* or with an exception that nothing catches.
Answer(text) == [k |-> "answer", text |-> text, e |-> "none", targs |-> <<None, None>>, ed |-> None]
Raise(e) == [k |-> "raise", text |-> <<>>, e |-> e, targs |-> <<None, None>>, ed |-> None]
CallTask(task_name, due_date) ==
    [k |-> "pages_create", text |-> <<>>, e |-> "none", targs |-> <<task_name, due_date>>, ed |-> None]
CallEvent(details) ==
    [k |-> "events_insert", text |-> <<>>, e |-> "none", targs |-> <<None, None>>, ed |-> details]

\* An uncaught exception ends the script run before the assistant message is
\* appended; the session stays open and takes the next prompt.
Continue(r) ==
    /\ pc' = CASE r.k = "answer" -> "respond" [] r.k = "raise" -> "idle" [] OTHER -> r.k
    /\ response_text' = r.text
    /\ fault' = r.e
    /\ task_args' = r.targs
    /\ event_details' = r.ed

\* f" (期日: {due_date})" if due_date else ""
due_date_str(due_date) ==
    IF Truthy(due_date) THEN <<" (\\u671f\\u65e5: ">> \o Str(due_date) \o <<")">> ELSE <<>>

\* add_task_to_notion up to notion.pages.create; failed is the answer for False
add_task_to_notion(task_name, due_date, failed) ==
    IF ~notion THEN Answer(failed) ELSE CallTask(task_name, due_date)

\* properties_payload of add_task_to_notion; the date is left out when
\* strptime raises ValueError
properties_payload(task_name, due_date) ==
    IF Truthy(due_date) /\ strptime_ok(due_date.s)
    THEN [title |-> task_name, date |-> [start |-> due_date]]
    ELSE [title |-> task_name]

RequiredEventKeys == {"summary", "start_time", "end_time"}

\* add_event_to_calendar up to events().insert; failed is the answer for None
add_event_to_calendar(service, details, failed) ==
    IF ~service THEN Answer(failed)
    ELSE IF ~calendar_owner_email THEN Answer(failed)
    ELSE IF details.t # "object" THEN Raise("TypeError")
    ELSE IF ~(RequiredEventKeys \subseteq DOMAIN details.f) THEN Raise("KeyError")
    ELSE CallEvent(details)

\* the event dict of add_event_to_calendar
event(details) ==
    [summary |-> details.f["summary"],
     start |-> [dateTime |-> details.f["start_time"], timeZone |-> "Asia/Tokyo"],
     end |-> [dateTime |-> details.f["end_time"], timeZone |-> "Asia/Tokyo"]]

\* parse_event_with_gemini after the model check: the except clause formats
\* response.text, which is unbound when generate_content raised
parse_event_with_gemini(o) ==
    IF o.raised THEN [raises |-> "UnboundLocalError", value |-> None]
    ELSE IF ~loads_ok(json_text(o.text)) THEN [raises |-> "none", value |-> None]
    ELSE [raises |-> "none", value |-> loads(json_text(o.text))]

\* parse_email_with_gemini after the model check
parse_email_with_gemini(o) ==
    IF o.raised THEN [raises |-> "UnboundLocalError", value |-> None]
    ELSE IF ~loads_ok(json_text(o.text)) THEN [raises |-> "none", value |-> None]
    ELSE [raises |-> "none", value |-> loads(json_text(o.text))]

\* "Googleカレンダーへの予定追加に失敗しました。"
EventAddFailed == <<"Google\\u30ab\\u30ec\\u30f3\\u30c0\\u30fc\\u3078\\u306e\\u4e88\\u5b9a\\u8ffd\\u52a0\\u306b\\u5931\\u6557\\u3057\\u307e\\u3057\\u305f\\u3002">>

\* the task branch from generate_content to notion.pages.create
task_branch(o) ==
    IF o.raised THEN Answer(<<"Gemini task extraction failed: ">> \o ErrGenerate)
    ELSE IF ~loads_ok(json_text(o.text)) THEN Answer(<<"Error parsing task details from Gemini.">>)
    ELSE LET task_info == loads(json_text(o.text)) IN
         IF task_info.t # "object" THEN Answer(<<"Gemini task extraction failed: ">> \o ErrNoGet)
         ELSE LET task_name == get(task_info, "task_name")
                  due_date == get(task_info, "due_date")
              IN  IF Truthy(task_name)
                  THEN add_task_to_notion(task_name, due_date, <<"Failed to add task to Notion.">>)
                  ELSE Answer(<<"Could not extract task name from your request.">>)

\* the event branch from generate_content to events().insert
\* "予定の抽出に失敗しました。日時を明確にして再度お試しください。"
event_branch(o) ==
    LET parsed == parse_event_with_gemini(o) IN
    IF parsed.raises # "none" THEN Raise(parsed.raises)
    ELSE IF Truthy(parsed.value)
    THEN add_event_to_calendar(gcal_service, parsed.value, EventAddFailed)
    ELSE Answer(<<"\\u4e88\\u5b9a\\u306e\\u62bd\\u51fa\\u306b\\u5931\\u6557\\u3057\\u307e\\u3057\\u305f\\u3002\\u65e5\\u6642\\u3092\\u660e\\u78ba\\u306b\\u3057\\u3066\\u518d\\u5ea6\\u304a\\u8a66\\u3057\\u304f\\u3060\\u3055\\u3044\\u3002">>)

\* deadline_override with the whole start_time taken as the due date
deadline_override_NoSplit(parsed_info) ==
    LET action == get(parsed_info, "action")
        summary == get(parsed_info, "summary")
        is_deadline == \E k \in DEADLINE_KEYWORDS :
                          Contains(k, IF Truthy(summary) THEN summary.s ELSE <<>>)
        start_time == get(parsed_info, "start_time")
    IN  IF is_deadline /\ action = JStr(<<"e", "v", "e", "n", "t">>)
        THEN [action |-> JStr(<<"t", "a", "s", "k">>), summary |-> summary, date |-> start_time]
        ELSE [action |-> action, summary |-> summary, date |-> get(parsed_info, "date")]

\* the deadline override of the email branch: action, summary and
\* parsed_info["date"] after it
deadline_override(parsed_info) ==
    LET action == get(parsed_info, "action")
        summary == get(parsed_info, "summary")
        is_deadline == \E k \in DEADLINE_KEYWORDS :
                          Contains(k, IF Truthy(summary) THEN summary.s ELSE <<>>)
        start_time == get(parsed_info, "start_time")
    IN  IF is_deadline /\ action = JStr(<<"e", "v", "e", "n", "t">>)
        THEN [action |-> JStr(<<"t", "a", "s", "k">>), summary |-> summary,
              date |-> IF Truthy(start_time) THEN JStr(Split(start_time.s, "T")[1]) ELSE None]
        ELSE [action |-> action, summary |-> summary, date |-> get(parsed_info, "date")]

\* the email branch from generate_content to the write
\* "メールから構造化データの抽出に失敗しました。"
\* "Notionへのタスク追加に失敗しました。"
\* "メール分析の結果、カレンダー予定またはNotionタスクに該当する明確なアクションは見つかりませんでした。"
email_branch(o) ==
    LET parsed == parse_email_with_gemini(o) IN
    IF parsed.raises # "none" THEN Raise(parsed.raises)
    ELSE IF ~Truthy(parsed.value)
    THEN Answer(<<"\\u30e1\\u30fc\\u30eb\\u304b\\u3089\\u69cb\\u9020\\u5316\\u30c7\\u30fc\\u30bf\\u306e\\u62bd\\u51fa\\u306b\\u5931\\u6557\\u3057\\u307e\\u3057\\u305f\\u3002">>)
    ELSE IF parsed.value.t # "object" THEN Raise("AttributeError")
    ELSE LET d == deadline_override(parsed.value) IN
         IF d.action = JStr(<<"e", "v", "e", "n", "t">>)
         THEN add_event_to_calendar(gcal_service,
                  JObj([summary |-> d.summary,
                        start_time |-> get(parsed.value, "start_time"),
                        end_time |-> get(parsed.value, "end_time")]),
                  EventAddFailed)
         ELSE IF d.action = JStr(<<"t", "a", "s", "k">>) /\ Truthy(d.summary)
         THEN add_task_to_notion(d.summary, d.date, <<"Notion\\u3078\\u306e\\u30bf\\u30b9\\u30af\\u8ffd\\u52a0\\u306b\\u5931\\u6557\\u3057\\u307e\\u3057\\u305f\\u3002">>)
         ELSE Answer(<<"\\u30e1\\u30fc\\u30eb\\u5206\\u6790\\u306e\\u7d50\\u679c\\u3001\\u30ab\\u30ec\\u30f3\\u30c0\\u30fc\\u4e88\\u5b9a\\u307e\\u305f\\u306fNotion\\u30bf\\u30b9\\u30af\\u306b\\u8a72\\u5f53\\u3059\\u308b\\u660e\\u78ba\\u306a\\u30a2\\u30af\\u30b7\\u30e7\\u30f3\\u306f\\u898b\\u3064\\u304b\\u308a\\u307e\\u305b\\u3093\\u3067\\u3057\\u305f\\u3002">>)

\* the chat branch
\* "Geminiからの応答取得中にエラーが発生: {e}"
chat_branch(o) ==
    IF o.raised THEN Answer(<<"Gemini\\u304b\\u3089\\u306e\\u5fdc\\u7b54\\u53d6\\u5f97\\u4e2d\\u306b\\u30a8\\u30e9\\u30fc\\u304c\\u767a\\u751f: ">> \o ErrGenerate)
    ELSE Answer(o.text)

\* the branch taken before any call when the model is not configured
\* "予定の抽出に失敗しました。日時を明確にして再度お試しください。"
\* "メールから構造化データの抽出に失敗しました。"
\* "Geminiモデルが初期化されていません。"
no_model(b) ==
    CASE b = "Task" -> Answer(<<"Gemini task extraction failed: ">> \o ErrNoModel)
      [] b = "Event" -> Answer(<<"\\u4e88\\u5b9a\\u306e\\u62bd\\u51fa\\u306b\\u5931\\u6557\\u3057\\u307e\\u3057\\u305f\\u3002\\u65e5\\u6642\\u3092\\u660e\\u78ba\\u306b\\u3057\\u3066\\u518d\\u5ea6\\u304a\\u8a66\\u3057\\u304f\\u3060\\u3055\\u3044\\u3002">>)
      [] b = "Email" -> Answer(<<"\\u30e1\\u30fc\\u30eb\\u304b\\u3089\\u69cb\\u9020\\u5316\\u30c7\\u30fc\\u30bf\\u306e\\u62bd\\u51fa\\u306b\\u5931\\u6557\\u3057\\u307e\\u3057\\u305f\\u3002">>)
      [] b = "Unavailable" -> Answer(<<"Gemini\\u30e2\\u30c7\\u30eb\\u304c\\u521d\\u671f\\u5316\\u3055\\u308c\\u3066\\u3044\\u307e\\u305b\\u3093\\u3002">>)

\* the user submits a prompt: the transcript gets it and the chain picks a
\* branch; the branch runs up to its generate_content call
Submit(u) ==
    /\ pc = "idle"
    /\ Turns < MaxTurns
    /\ messages' = Append(messages, [role |-> "user", content |-> u])
    /\ prompt' = u
    /\ branch' = Route(u)
    /\ completion' = NoCompletion
    /\ calls' = <<>>
    /\ IF gemini_model
       THEN /\ pc' = "generate_content"
            /\ response_text' = <<>>
            /\ fault' = "none"
            /\ task_args' = <<None, None>>
            /\ event_details' = None
       ELSE Continue(no_model(Route(u)))
    /\ UNCHANGED config

\* generate_content returns or raises, and the branch runs up to its write
GenerateContent(o, r) ==
    /\ pc = "generate_content"
    /\ completion' = o
    /\ calls' = Append(calls, [api |-> "generate_content", body |-> <<>>,
                               raised |-> IF o.raised THEN "Exception" ELSE "none"])
    /\ Continue(r)
    /\ UNCHANGED <<config, messages, prompt, branch>>

TaskExtraction(o) == branch = "Task" /\ GenerateContent(o, task_branch(o))
EventExtraction(o) == branch = "Event" /\ GenerateContent(o, event_branch(o))
EmailExtraction(o) == branch = "Email" /\ GenerateContent(o, email_branch(o))
Chat(o) == branch = "Chat" /\ GenerateContent(o, chat_branch(o))

WriteOutcomes == {"ok", "HttpError", "OSError"}

\* notion.pages.create returns or raises; add_task_to_notion catches Exception
\* "OK. Notionにタスク「{task_name}」{due_date_str}を追加しました。"
\* "Notionにタスク「{task_name}」{due_date_str}を追加しました。"
\* "Notionへのタスク追加に失敗しました。"
pages_create(o) ==
    /\ pc = "pages_create"
    /\ calls' = Append(calls, [api |-> "pages.create",
                               body |-> properties_payload(task_args[1], task_args[2]),
                               raised |-> IF o = "ok" THEN "none" ELSE o])
    /\ pc' = "respond"
    /\ response_text' =
         IF o = "ok"
         THEN (IF branch = "Task" THEN <<"OK. Notion\\u306b\\u30bf\\u30b9\\u30af\\u300c">> ELSE <<"Notion\\u306b\\u30bf\\u30b9\\u30af\\u300c">>)
              \o Str(task_args[1]) \o <<"\\u300d">> \o due_date_str(task_args[2])
              \o <<"\\u3092\\u8ffd\\u52a0\\u3057\\u307e\\u3057\\u305f\\u3002">>
         ELSE IF branch = "Task" THEN <<"Failed to add task to Notion.">>
         ELSE <<"Notion\\u3078\\u306e\\u30bf\\u30b9\\u30af\\u8ffd\\u52a0\\u306b\\u5931\\u6557\\u3057\\u307e\\u3057\\u305f\\u3002">>
    /\ UNCHANGED <<config, messages, prompt, branch, completion, task_args,
                   event_details, fault>>

\* events().insert(...).execute() returns or raises; add_event_to_calendar
\* catches HttpError only
\* "承知いたしました。予定「{summary}」をGoogleカレンダーに追加しました。\n[予定を確認する]({event_link})"
\* "Googleカレンダーに予定「{summary}」を追加しました。\n[予定を確認する]({event_link})"
events_insert(o) ==
    /\ pc = "events_insert"
    /\ calls' = Append(calls, [api |-> "events.insert", body |-> event(event_details),
                               raised |-> IF o = "ok" THEN "none" ELSE o])
    /\ IF o = "ok"
       THEN /\ pc' = "respond"
            /\ fault' = fault
            /\ response_text' =
                 (IF branch = "Event"
                  THEN <<"\\u627f\\u77e5\\u3044\\u305f\\u3057\\u307e\\u3057\\u305f\\u3002\\u4e88\\u5b9a\\u300c">> \o Str(event_details.f["summary"])
                       \o <<"\\u300d\\u3092Google\\u30ab\\u30ec\\u30f3\\u30c0\\u30fc\\u306b\\u8ffd\\u52a0\\u3057\\u307e\\u3057\\u305f\\u3002">>
                  ELSE <<"Google\\u30ab\\u30ec\\u30f3\\u30c0\\u30fc\\u306b\\u4e88\\u5b9a\\u300c">> \o Str(event_details.f["summary"])
                       \o <<"\\u300d\\u3092\\u8ffd\\u52a0\\u3057\\u307e\\u3057\\u305f\\u3002">>)
                 \o <<"\n", "[\\u4e88\\u5b9a\\u3092\\u78ba\\u8a8d\\u3059\\u308b](">> \o HtmlLink \o <<")">>
       ELSE IF o = "HttpError"
       THEN pc' = "respond" /\ fault' = fault /\ response_text' = EventAddFailed
       ELSE pc' = "idle" /\ fault' = o /\ response_text' = response_text
    /\ UNCHANGED <<config, messages, prompt, branch, completion, task_args, event_details>>

\* st.markdown(response_text) and the append of the assistant message
Respond ==
    /\ pc = "respond"
    /\ messages' = Append(messages, [role |-> "assistant", content |-> response_text])
    /\ pc' = "idle"
    /\ UNCHANGED <<config, prompt, branch, completion, task_args, event_details,
                   calls, response_text, fault>>

Next ==
    \/ \E u \in Utterances : Submit(u)
    \/ \E o \in Completions : TaskExtraction(o)
    \/ \E o \in Completions : EventExtraction(o)
    \/ \E o \in Completions : EmailExtraction(o)
    \/ \E o \in Completions : Chat(o)
    \/ \E o \in {"ok", "APIResponseError"} : pages_create(o)
    \/ \E o \in WriteOutcomes : events_insert(o)
    \/ Respond

Spec == Init /\ [][Next]_vars

----------------------------------------------------------------------------
(* Properties *)

\* a turn has run to its end and the session waits for the next prompt
TurnDone == pc = "idle" /\ branch # "none"

\* the turn appended its assistant message
Answered == messages # <<>> /\ messages[Len(messages)].role = "assistant"

Issued(api) == \E i \in DOMAIN calls : calls[i].api = api
Count(api) == Len(SelectSeq(calls, LAMBDA c : c.api = api))
WriteCount == Count("pages.create") + Count("events.insert")

\* the completion of this turn returned a text that parses to a JSON object
ParsedObject ==
    /\ Issued("generate_content") /\ ~completion.raised
    /\ loads_ok(json_text(completion.text))
    /\ loads(json_text(completion.text)).t = "object"
Parsed == loads(json_text(completion.text))

\* a field of the parsed object is absent or null
Lacks(k) == get(Parsed, k) = None

ContainsAny(keys, s) == \E k \in keys : Contains(k, s)

\* the keyword sets of the specification's Router
SpecTaskKeywords == { <<"n", "o", "t", "i", "o", "n">>, <<"t", "a", "s", "k">> }
SpecLocalTaskKeywords == { <<"\\u30bf", "\\u30b9", "\\u30af">> }
SpecCalendarKeywords == { <<"c", "a", "l", "e", "n", "d", "a", "r">>, <<"s", "c", "h", "e", "d", "u", "l", "e">>, <<"e", "v", "e", "n", "t">> }
SpecLocalCalendarKeywords == { <<"\\u30ab", "\\u30ec", "\\u30f3", "\\u30c0", "\\u30fc">>, <<"\\u4e88", "\\u5b9a">> }
SpecMailKeywords == { <<"e", "m", "a", "i", "l">>, <<"m", "a", "i", "l">> }

SpecHasTask(u) ==
    ContainsAny(SpecTaskKeywords, lower(u)) \/ ContainsAny(SpecLocalTaskKeywords, u)
SpecHasCalendar(u) ==
    ContainsAny(SpecCalendarKeywords, lower(u)) \/ ContainsAny(SpecLocalCalendarKeywords, u)

\* C1 as stated: an utterance with a task keyword and a calendar keyword takes
\* the task branch and never creates an event, whatever is configured.
C1_Original ==
    (branch # "none" /\ SpecHasTask(prompt) /\ SpecHasCalendar(prompt))
        => (branch = "Task" /\ ~Issued("events.insert"))

\* C1 amended: when the task collaborator is configured, an utterance with
\* "notion" or "task" (any case) and a calendar keyword takes the task branch:
\* its calls are one completion and then at most create-task, never create-event.
C1_TaskPriority ==
    (branch # "none" /\ notion
       /\ ContainsAny(SpecTaskKeywords, lower(prompt)) /\ SpecHasCalendar(prompt))
        => /\ branch = "Task"
           /\ ~Issued("events.insert")
           /\ \A i \in DOMAIN calls :
                calls[i].api = IF i = 1 THEN "generate_content" ELSE "pages.create"

C1_Witness ==
    /\ TurnDone /\ notion /\ gcal_service /\ calendar_owner_email
    /\ ContainsAny(SpecTaskKeywords, lower(prompt))
    /\ ContainsAny(SpecLocalCalendarKeywords, prompt)
    /\ branch = "Task" /\ Len(calls) = 2 /\ Answered

\* the first matching rule of the specification's ordered list
SpecRule(u) ==
    CASE notion /\ SpecHasTask(u) -> "Task"
      [] ~(notion /\ SpecHasTask(u)) /\ gcal_service /\ SpecHasCalendar(u) -> "Event"
      [] OTHER ->
           IF ContainsAny(SpecMailKeywords, lower(u)) THEN "Email"
           ELSE IF gemini_model THEN "Chat" ELSE "Unavailable"

\* "Geminiモデルが初期化されていません。"
NotInitialized == <<"Gemini\\u30e2\\u30c7\\u30eb\\u304c\\u521d\\u671f\\u5316\\u3055\\u308c\\u3066\\u3044\\u307e\\u305b\\u3093\\u3002">>

\* C2 as stated: the branch taken is the first matching rule of the
\* specification's list, with its keyword sets.
C2_Original == branch # "none" => branch = SpecRule(prompt)

\* the ordered list with the keywords the dispatcher tests: "notion"/"task" in
\* any case for rule 1, カレンダー/予定 as typed for rule 2
Rule1(u) == notion /\ ContainsAny(SpecTaskKeywords, lower(u))
Rule2(u) == gcal_service /\ ContainsAny(SpecLocalCalendarKeywords, u)
Rule3(u) == ContainsAny(SpecMailKeywords, lower(u))

\* C2 amended: the branch taken is the first matching rule of (1) task
\* collaborator configured and "notion" or "task" in any case -> Task, (2)
\* calendar collaborator configured and カレンダー or 予定 -> Event, (3) "email" or
\* "mail" in any case -> Email, (4) completion configured -> Chat, (5)
\* Unavailable, which answers the fixed not-initialized message without a call.
C2_FirstMatch ==
    branch # "none" =>
        /\ Rule1(prompt) => branch = "Task"
        /\ ~Rule1(prompt) /\ Rule2(prompt) => branch = "Event"
        /\ ~Rule1(prompt) /\ ~Rule2(prompt) /\ Rule3(prompt) => branch = "Email"
        /\ ~Rule1(prompt) /\ ~Rule2(prompt) /\ ~Rule3(prompt) /\ gemini_model
             => branch = "Chat"
        /\ ~Rule1(prompt) /\ ~Rule2(prompt) /\ ~Rule3(prompt) /\ ~gemini_model
             => /\ branch = "Unavailable"
                /\ response_text = NotInitialized
                /\ calls = <<>>

C2_Witness ==
    /\ TurnDone /\ notion /\ gcal_service /\ gemini_model
    /\ prompt = <<"T", "A", "S", "K">> /\ branch = "Task" /\ Answered

\* C3 as stated: when an outbound call raises, the exception is caught, no
\* further call is made in the turn and the turn appends its assistant message.
C3_FailureCaught ==
    (\E i \in DOMAIN calls : calls[i].raised # "none") =>
        /\ fault = "none"
        /\ calls[Len(calls)].raised # "none"
        /\ pc = "idle" => Answered

\* C4 as stated: when the completion text does not parse as a JSON object, the
\* turn answers with an error, issues no write and raises nothing.
C4_ParseErrorReported ==
    (TurnDone /\ branch \in {"Task", "Event", "Email"}
       /\ Issued("generate_content") /\ ~completion.raised /\ ~ParsedObject)
        => (fault = "none" /\ WriteCount = 0 /\ Answered)

\* C5 as stated: in the direct event path an object without summary or
\* start_time never reaches the calendar insert and ends in a failure answer.
C5_MissingFieldReported ==
    (TurnDone /\ branch = "Event" /\ ParsedObject
       /\ (Lacks("summary") \/ Lacks("start_time")))
        => (fault = "none" /\ ~Issued("events.insert") /\ Answered)

\* the deadline keywords the specification names
SpecDeadlineKeywords == { <<"d", "u", "e">>, <<"d", "e", "a", "d", "l", "i", "n", "e">>, <<"s", "u", "b", "m", "i", "t">>, <<"d", "u", "e", " ", "d", "a", "t", "e">> }

\* s up to its first "T", the whole of s when it has none
IsDatePortion(p, s) ==
    /\ Len(p) <= Len(s) /\ SubSeq(s, 1, Len(p)) = p
    /\ \A i \in 1..Len(p) : p[i] # "T"
    /\ (Len(p) < Len(s) => s[Len(p) + 1] = "T")

\* a create-task call carried title and this due date
TaskCreated(title, due) ==
    \E i \in DOMAIN calls :
        /\ calls[i].api = "pages.create"
        /\ calls[i].body = [title |-> title, date |-> [start |-> due]]

EmailEventClassified ==
    /\ TurnDone /\ branch = "Email" /\ ParsedObject
    /\ get(Parsed, "action") = JStr(<<"e", "v", "e", "n", "t">>)
    /\ get(Parsed, "summary").t = "string"

\* C6 as stated, with every collaborator configured: an email classified as
\* event whose summary has a deadline keyword of the specification becomes a
\* task due on the date portion of start_time: create-task is called with it
\* and create-event is not.
C6_Original ==
    (EmailEventClassified /\ notion /\ gcal_service /\ calendar_owner_email
       /\ get(Parsed, "start_time").t = "string"
       /\ ContainsAny(SpecDeadlineKeywords \cup DEADLINE_KEYWORDS, lower(get(Parsed, "summary").s)))
        => /\ ~Issued("events.insert")
           /\ \E p \in {SubSeq(get(Parsed, "start_time").s, 1, n) : n \in 0..Len(get(Parsed, "start_time").s)} :
                /\ IsDatePortion(p, get(Parsed, "start_time").s)
                /\ TaskCreated(get(Parsed, "summary"), JStr(p))

\* C6 amended: an email classified as event whose summary contains one of
\* 〆切, 期限, 提出, 締切, 期日 becomes a task and never calls create-event; when
\* the task collaborator is configured create-task is called once with the
\* summary as title and, as due date, start_time up to its first "T" (here a
\* valid YYYY-MM-DD), or with no date when start_time is null.  A summary with
\* none of these keywords, the specification's English one included, stays an
\* event and creates no task.
C6_DeadlineOverride ==
    /\ (EmailEventClassified /\ ContainsAny(DEADLINE_KEYWORDS, get(Parsed, "summary").s))
        => /\ ~Issued("events.insert")
           /\ notion => Count("pages.create") = 1
           /\ ~notion => Count("pages.create") = 0
           /\ (notion /\ get(Parsed, "start_time").t = "string") =>
                \E p \in {SubSeq(get(Parsed, "start_time").s, 1, n) : n \in 0..Len(get(Parsed, "start_time").s)} :
                    /\ IsDatePortion(p, get(Parsed, "start_time").s)
                    /\ strptime_ok(p)
                    /\ TaskCreated(get(Parsed, "summary"), JStr(p))
           /\ (notion /\ get(Parsed, "start_time") = None) =>
                \E i \in DOMAIN calls :
                    /\ calls[i].api = "pages.create"
                    /\ calls[i].body = [title |-> get(Parsed, "summary")]
    /\ (EmailEventClassified /\ ~ContainsAny(DEADLINE_KEYWORDS, get(Parsed, "summary").s))
        => ~Issued("pages.create")

C6_Witness ==
    /\ EmailEventClassified /\ notion
    /\ get(Parsed, "summary") = JStr(ReportJa)
    /\ TaskCreated(JStr(ReportJa), JStr(Mar10))
    /\ Answered

\* the timestamp one hour after s, for an hour of s before 23
PlusOneHour(s) ==
    LET h == Num(SubSeq(s, 12, 13)) + 1
    IN  SubSeq(s, 1, 11) \o <<Digits[(h \div 10) + 1], Digits[(h % 10) + 1]>>
        \o SubSeq(s, 14, Len(s))

\* the turn extracted an event with a summary and a start but no end
EventWithoutEnd ==
    /\ TurnDone /\ branch \in {"Event", "Email"} /\ ParsedObject
    /\ branch = "Email" =>
         /\ get(Parsed, "action") = JStr(<<"e", "v", "e", "n", "t">>)
         /\ ~ContainsAny(DEADLINE_KEYWORDS, get(Parsed, "summary").s)
    /\ get(Parsed, "summary").t = "string"
    /\ get(Parsed, "start_time").t = "string"
    /\ Lacks("end_time")

\* C7 as stated: an extracted event without end_time is sent to the calendar
\* with end_time one hour after start_time, in the event and the email path.
C7_DefaultEnd ==
    (EventWithoutEnd /\ gcal_service /\ calendar_owner_email) =>
        \E i \in DOMAIN calls :
            /\ calls[i].api = "events.insert"
            /\ calls[i].body.end.dateTime = JStr(PlusOneHour(get(Parsed, "start_time").s))

\* C8 as stated: with no calendar collaborator, an utterance with a calendar
\* keyword ends in Chat or Unavailable, creates no event and raises nothing.
C8_Original ==
    (TurnDone /\ ~gcal_service /\ SpecHasCalendar(prompt))
        => /\ branch \in {"Chat", "Unavailable"}
           /\ ~Issued("events.insert")
           /\ fault = "none"

\* C8 amended: with no calendar collaborator, an utterance with a calendar
\* keyword never takes the event branch and never calls create-event; when it
\* matches neither the task rule (task collaborator configured, "notion" or
\* "task") nor the email rule ("email" or "mail"), it ends in Chat if the
\* completion collaborator is configured and in Unavailable otherwise, and
\* raises nothing.
C8_NoCalendarFallThrough ==
    (branch # "none" /\ ~gcal_service /\ SpecHasCalendar(prompt))
        => /\ branch # "Event"
           /\ ~Issued("events.insert")
           /\ (~Rule1(prompt) /\ ~Rule3(prompt))
                => /\ branch = IF gemini_model THEN "Chat" ELSE "Unavailable"
                   /\ fault = "none"
                   /\ pc = "idle" => Answered

C8_Witness ==
    /\ TurnDone /\ ~gcal_service /\ gemini_model
    /\ ContainsAny(SpecLocalCalendarKeywords, prompt)
    /\ branch = "Chat" /\ Issued("generate_content") /\ Answered

\* the extraction of the turn failed: the completion raised, its text is no
\* JSON object, or a required field of the record it stands for is missing
ExtractionFailed ==
    /\ branch \in {"Task", "Event", "Email"}
    /\ \/ ~ParsedObject
       \/ branch = "Task" /\ ~Truthy(get(Parsed, "task_name"))
       \/ branch = "Event" /\ (Lacks("summary") \/ Lacks("start_time"))
       \/ branch = "Email" /\ get(Parsed, "action") = JStr(<<"t", "a", "s", "k">>)
            /\ ~Truthy(get(Parsed, "summary"))
       \/ branch = "Email" /\ get(Parsed, "action") = JStr(<<"e", "v", "e", "n", "t">>)
            /\ ~ContainsAny(DEADLINE_KEYWORDS, Str(get(Parsed, "summary")))
            /\ (Lacks("summary") \/ Lacks("start_time"))

\* C9 as stated: a turn issues at most one write and at most one completion
\* call, and no write at all when it is routed to Chat or Unavailable or when
\* its extraction failed.
C9_AtMostOneWrite ==
    /\ WriteCount <= 1
    /\ Count("generate_content") <= 1
    /\ (TurnDone /\ (branch \in {"Chat", "Unavailable"} \/ ExtractionFailed))
         => WriteCount = 0

\* C10 as stated: whenever the session is idle the transcript is User,
\* Assistant, User, Assistant, ..., one pair for each accepted turn.
C10_Alternating ==
    pc = "idle" =>
        /\ Len(messages) = 2 * Turns
        /\ \A i \in DOMAIN messages :
             messages[i].role = IF i % 2 = 1 THEN "user" ELSE "assistant"
====
